---- MODULE Spec2Model ----
(***************************************************************************)
(* Model of `ksctl adm restart` (pkg/cmd/adm/restart.go): the restart of   *)
(* the OLM based deployments of an operator namespace by pod deletion,     *)
(* followed by the rollout-restart of the non-OLM ("provider") ones, each  *)
(* followed by a `rollout status` wait, behind a confirmation prompt.      *)
(*                                                                         *)
(* The cluster is part of the state: deployments with their namespace and  *)
(* labels, pods with their namespace and app label, and what the cluster's *)
(* own controllers still have to bring back (deleted pods, rollouts).      *)
(***************************************************************************)
EXTENDS Integers, Sequences, FiniteSets, TLC

\* ---------------------------------------------------------------- bounds
MaxDeployments == 2      \* deployments of the cluster are named 1..MaxDeployments
MaxPods == 2             \* pods of the cluster at start are named 1..MaxPods

\* ------------------------------------------------------------- universes
OperatorNamespace == "operator-ns"          \* cfg.OperatorNamespace
OtherNamespace == "other-ns"                \* any other namespace of the cluster
Namespaces == {OperatorNamespace, OtherNamespace}

DeploymentNames == 1..MaxDeployments
PodNames == 1..MaxPods

\* operatorType ...string : the positional arguments of the command
OperatorTypes == {<< >>, <<"host">>, <<"member-1">>}

NoPod == [name |-> 0, ns |-> "", app |-> 0]

VARIABLES
    pc,                    \* position of the run inside restart/restartDeployment/deletePods
    err,                   \* the error restart returns ("nil" = no error, "" = not returned yet)
    operatorType,          \* the operatorType arguments
    deployments,           \* cluster: name -> [ns, olm, provider]
    pods,                  \* cluster: the set of live pods [name, ns, app]
    missing,               \* cluster: deleted pods their deployment has not replaced yet
    rolling,               \* cluster: deployments whose triggered rollout has not completed
    olmDeploymentList,     \* restartDeployment's first list  [nil, Items]
    nonOlmDeploymentlist,  \* restartDeployment's second list [nil, Items]
    i,                     \* index of the range loop over olmDeploymentList.Items
    j,                     \* index of the range loop over nonOlmDeploymentlist.Items
    podItems,              \* deletePods: pods.Items, the listing of the current deployment
    k,                     \* index of the range loop over pods.Items
    trace,                 \* history: the calls the run made on its collaborators, in order
    efPc,                  \* EnableFeature: position of the call
    efErr,                 \* EnableFeature: the error returned ("nil" = none, "" = not returned yet)
    spaceName,             \* EnableFeature: the name of the Space asked for
    featureToggleName,     \* EnableFeature: the feature toggle to enable
    spaces,                \* host cluster: Space name -> [exists, annotated, toggles]
    spaces0,               \* history: spaces when the current call started
    config,                \* host cluster: the ToolchainConfig [exists, FeatureToggles]
    answer,                \* EnableFeature: the answer to the confirmation ("" = not asked)
    output,                \* EnableFeature: the messages written to the terminal
    calls                  \* number of EnableFeature calls made so far

\* the state of `ksctl enable-feature`
efVars == <<efPc, efErr, spaceName, featureToggleName, spaces, spaces0, config,
            answer, output, calls>>

\* the state of `ksctl adm restart`
restartVars == <<pc, err, operatorType, deployments, pods, missing, rolling,
                 olmDeploymentList, nonOlmDeploymentlist, i, j, podItems, k, trace>>

vars == <<restartVars, efVars>>

cluster == <<deployments, pods, missing, rolling>>
locals == <<olmDeploymentList, nonOlmDeploymentlist, i, j, podItems, k>>

\* --------------------------------------------------------------- helpers
Min(S) == CHOOSE x \in S : \A y \in S : x <= y

\* a set of names as the list a List call returns (ascending names)
RECURSIVE NamesToSeq(_)
NamesToSeq(S) == IF S = {} THEN << >>
                 ELSE <<Min(S)>> \o NamesToSeq(S \ {Min(S)})

\* a set of pods as the list a List call returns (ascending names)
RECURSIVE PodsToSeq(_)
PodsToSeq(S) == IF S = {} THEN << >>
                ELSE LET p == CHOOSE x \in S : \A y \in S : x.name <= y.name
                     IN  <<p>> \o PodsToSeq(S \ {p})

Event(op, d, p, ok) == [op |-> op, d |-> d, p |-> p, ok |-> ok]

NilList == [nil |-> TRUE, Items |-> << >>]
List(items) == [nil |-> FALSE, Items |-> items]

\* cl.List(olmDeployments, InNamespace(ns), MatchingLabels{"olm.owner.kind": "ClusterServiceVersion"})
ListOlmDeployments(ns) ==
    NamesToSeq({d \in DeploymentNames : deployments[d].ns = ns /\ deployments[d].olm})

\* cl.List(nonOlmDeployments, InNamespace(ns), MatchingLabels{"provider": "codeready-toolchain"})
ListNonOlmDeployments(ns) ==
    NamesToSeq({d \in DeploymentNames : deployments[d].ns = ns /\ deployments[d].provider})

\* cl.List(&pods, MatchingLabelsSelector{selector}) : the selector of the
\* deployment, and no namespace option
ListPods(deployment) ==
    PodsToSeq({p \in pods : p.app = deployment})

\* the deployment a pod belongs to: the one of its namespace whose selector matches
Owners(p) == {d \in DeploymentNames : deployments[d].ns = p.ns /\ p.app = d}

\* rollout status of one deployment: all replicas updated and available
Converged(d) == d \notin rolling /\ \A p \in missing : d \notin Owners(p)

\* cmd.LabelSelector = "provider=codeready-toolchain"; cmd.Namespace = ns :
\* the deployments a rollout-status wait watches
Watched(ns) == {d \in DeploymentNames : deployments[d].ns = ns /\ deployments[d].provider}

\* ------------------------------------------------------------------ Init
\* no EnableFeature call is made in a run of restart
EnableFeatureIdle ==
    /\ efPc = "idle"
    /\ efErr = ""
    /\ spaceName = ""
    /\ featureToggleName = ""
    /\ spaces = << >>
    /\ spaces0 = << >>
    /\ config = [exists |-> FALSE, FeatureToggles |-> << >>]
    /\ answer = ""
    /\ output = {}
    /\ calls = 0

\* pod names are arbitrary: the pods of the cluster are named in the order of
\* their app label, those of the operator namespace first
PodOrder(p) == 2 * p.app + (IF p.ns = OperatorNamespace THEN 0 ELSE 1)

Init ==
    /\ pc = "restart"
    /\ err = ""
    /\ operatorType \in OperatorTypes
    /\ deployments \in [DeploymentNames -> [ns : Namespaces, olm : BOOLEAN, provider : BOOLEAN]]
    /\ \E f \in [PodNames -> [ns : Namespaces, app : DeploymentNames]] :
          /\ \A m, n \in PodNames : m < n => PodOrder(f[m]) <= PodOrder(f[n])
          /\ pods = {[name |-> n, ns |-> f[n].ns, app |-> f[n].app] : n \in PodNames}
    /\ missing = {}
    /\ rolling = {}
    /\ olmDeploymentList = NilList
    /\ nonOlmDeploymentlist = NilList
    /\ i = 0
    /\ j = 0
    /\ podItems = << >>
    /\ k = 0
    /\ trace = << >>
    /\ EnableFeatureIdle

\* the control state an operation leaves: where the run continues, the error
\* it returned, the two loop indices of restartDeployment
Ctl(p, e, ii, jj) == [pc |-> p, err |-> e, i |-> ii, j |-> jj]

\* ---------------------------------------------------------------- restart
\* faulty variant: without an operator type the run goes on to list the
\* deployments, as the help text of the command says
RestartOutcome_ListFallback(cfgOk, clOk, args) ==
    IF ~cfgOk THEN Ctl("aborted", "LoadClusterConfig", 0, 0)
    ELSE IF ~clOk THEN Ctl("aborted", "NewClient", 0, 0)
    ELSE IF Len(args) = 0 THEN Ctl("discover", "", 0, 0)
    ELSE Ctl("confirm", "", 0, 0)

\* faulty variant: the error of LoadClusterConfig is dropped
RestartOutcome_IgnoreConfigError(cfgOk, clOk, args) ==
    IF cfgOk /\ ~clOk THEN Ctl("aborted", "NewClient", 0, 0)
    ELSE IF Len(args) = 0 THEN Ctl("aborted", "operator name missing", 0, 0)
    ELSE Ctl("confirm", "", 0, 0)

\* restart, lines 47-60: load the cluster config, build the client, check
\* that an operator type was given
RestartOutcome(cfgOk, clOk, args) ==
    IF ~cfgOk THEN Ctl("aborted", "LoadClusterConfig", 0, 0)
    ELSE IF ~clOk THEN Ctl("aborted", "NewClient", 0, 0)
    ELSE IF Len(args) = 0 THEN Ctl("aborted", "operator name missing", 0, 0)
    ELSE Ctl("confirm", "", 0, 0)

restart ==
    /\ pc = "restart"
    /\ \E cfgOk \in BOOLEAN, clOk \in BOOLEAN :
          LET out == RestartOutcome(cfgOk, clOk, operatorType)
          IN  /\ pc' = out.pc
              /\ err' = out.err
              /\ trace' = trace \o <<Event("LoadClusterConfig", 0, NoPod, cfgOk)>>
                                \o (IF cfgOk THEN <<Event("NewClient", 0, NoPod, clOk)>>
                                    ELSE << >>)
    /\ UNCHANGED <<operatorType, cluster, locals, efVars>>

\* faulty variant: the answer of the confirmation is not looked at
ConfirmOutcome_Ungated(confirmed) == Ctl("discover", "", 0, 0)

\* restart, lines 62-67: the confirmation gate
ConfirmOutcome(confirmed) ==
    IF ~confirmed THEN Ctl("done", "nil", 0, 0)
    ELSE Ctl("discover", "", 0, 0)

AskForConfirmation ==
    /\ pc = "confirm"
    /\ \E confirmed \in BOOLEAN :
          LET out == ConfirmOutcome(confirmed)
          IN  /\ pc' = out.pc
              /\ err' = out.err
              /\ trace' = Append(trace, Event("confirm", 0, NoPod, confirmed))
    /\ UNCHANGED <<operatorType, cluster, locals, efVars>>

\* faulty variant: the namespace follows the operator type
RestartNamespace_ByOperatorType(args) ==
    IF args = <<"member-1">> THEN OtherNamespace ELSE OperatorNamespace

\* restart, line 67: the namespace restartDeployment is called with is
\* cfg.OperatorNamespace of the target cluster, whatever operatorType holds
RestartNamespace(args) == OperatorNamespace

\* ------------------------------------------------------ restartDeployment
\* faulty variant: the loop over the non-OLM deployments stops one short
NonOlmLoop_OffByOne(list, ii, jj) ==
    IF list.nil THEN Ctl("aborted", "non-OLM not found", ii, jj)
    ELSE IF jj < Len(list.Items) THEN Ctl("restartNonOlm", "", ii, jj)
    ELSE Ctl("done", "nil", ii, jj)

\* lines 84-96: the nil check and the loop over the non-OLM deployments,
\* entered with the index jj of the next one
NonOlmLoop(list, ii, jj) ==
    IF list.nil THEN Ctl("aborted", "non-OLM not found", ii, jj)
    ELSE IF jj <= Len(list.Items) THEN Ctl("restartNonOlm", "", ii, jj)
    ELSE Ctl("done", "nil", ii, jj)

\* faulty variant: the loop over the OLM deployments skips the last one
OlmLoop_OffByOne(olmList, nonOlmList, ii) ==
    IF olmList.nil THEN Ctl("aborted", "OLM not found", ii, 1)
    ELSE IF ii < Len(olmList.Items) THEN Ctl("listPods", "", ii, 1)
    ELSE NonOlmLoop(nonOlmList, ii, 1)

\* lines 76-83: the nil check and the loop over the OLM deployments, entered
\* with the index ii of the next one
OlmLoop(olmList, nonOlmList, ii) ==
    IF olmList.nil THEN Ctl("aborted", "OLM not found", ii, 1)
    ELSE IF ii <= Len(olmList.Items) THEN Ctl("listPods", "", ii, 1)
    ELSE NonOlmLoop(nonOlmList, ii, 1)

\* getExistingDeployments, lines 167-184, and its use at lines 71-78
getExistingDeployments ==
    /\ pc = "discover"
    /\ \E olmOk \in BOOLEAN, nonOlmOk \in BOOLEAN :
          IF ~olmOk \/ ~nonOlmOk
          THEN /\ pc' = "aborted"
               /\ err' = "List deployments"
               /\ trace' = Append(trace, Event("listDeployments", 0, NoPod, FALSE))
               /\ UNCHANGED locals
          ELSE LET olm == List(ListOlmDeployments(RestartNamespace(operatorType)))
                   nonOlm == List(ListNonOlmDeployments(RestartNamespace(operatorType)))
                   out == OlmLoop(olm, nonOlm, 1)
               IN  /\ olmDeploymentList' = olm
                   /\ nonOlmDeploymentlist' = nonOlm
                   /\ i' = out.i
                   /\ j' = out.j
                   /\ pc' = out.pc
                   /\ err' = out.err
                   /\ trace' = Append(trace, Event("listDeployments", 0, NoPod, TRUE))
                   /\ UNCHANGED <<podItems, k>>
    /\ UNCHANGED <<operatorType, cluster, efVars>>

\* -------------------------------------------------------------- deletePods
\* faulty variant: deletePods lists again after the last deletion, until the
\* selector matches no pod
DeletePodsLoop_Relist(items, kk) ==
    IF kk <= Len(items) THEN Ctl("deletePod", "", i, j)
    ELSE IF items # << >> THEN Ctl("listPods", "", i, j)
    ELSE Ctl("waitOlm", "", i, j)

\* faulty variant: deletePods returns after the last deletion without the wait
DeletePodsLoop_NoWait(items, kk) ==
    IF kk <= Len(items) THEN Ctl("deletePod", "", i, j)
    ELSE OlmLoop(olmDeploymentList, nonOlmDeploymentlist, i + 1)

\* deletePods, lines 108-118: the loop over pods.Items, entered with the
\* index kk of the next pod; after the last one comes the rollout-status wait
DeletePodsLoop(items, kk) ==
    IF kk <= Len(items) THEN Ctl("deletePod", "", i, j)
    ELSE Ctl("waitOlm", "", i, j)

\* deletePods, lines 101-105: list the pods by the deployment's selector
deletePodsList ==
    /\ pc = "listPods"
    /\ LET deployment == olmDeploymentList.Items[i]
       IN  \E ok \in BOOLEAN :
             IF ~ok
             THEN /\ pc' = "aborted"
                  /\ err' = "List pods"
                  /\ trace' = Append(trace, Event("listPods", deployment, NoPod, FALSE))
                  /\ UNCHANGED <<i, j, podItems, k>>
             ELSE LET out == DeletePodsLoop(ListPods(deployment), 1)
                  IN  /\ podItems' = ListPods(deployment)
                      /\ k' = 1
                      /\ pc' = out.pc
                      /\ err' = out.err
                      /\ i' = out.i
                      /\ j' = out.j
                      /\ trace' = Append(trace, Event("listPods", deployment, NoPod, TRUE))
    /\ UNCHANGED <<operatorType, cluster, olmDeploymentList, nonOlmDeploymentlist, efVars>>

\* faulty variant: the error of Delete is dropped and the loop goes on
DeleteOutcome_IgnoreError(ok, items, kk) == DeletePodsLoop(items, kk + 1)

\* deletePods, lines 108-112: one iteration of the loop over pods.Items
DeleteOutcome(ok, items, kk) ==
    IF ~ok THEN Ctl("aborted", "Delete pod", i, j)
    ELSE DeletePodsLoop(items, kk + 1)

deletePodsDelete ==
    /\ pc = "deletePod"
    /\ LET deployment == olmDeploymentList.Items[i]
           pod == podItems[k]
       IN  \E ok \in {b \in BOOLEAN : b => pod \in pods} :
             LET out == DeleteOutcome(ok, podItems, k)
             IN  /\ pc' = out.pc
                 /\ err' = out.err
                 /\ i' = out.i
                 /\ j' = out.j
                 /\ trace' = Append(trace, Event("delete", deployment, pod, ok))
                 /\ k' = IF ok THEN k + 1 ELSE k
                 /\ pods' = IF ok THEN pods \ {pod} ELSE pods
                 /\ missing' = IF ok /\ Owners(pod) # {} THEN missing \cup {pod} ELSE missing
    /\ UNCHANGED <<operatorType, deployments, rolling,
                   olmDeploymentList, nonOlmDeploymentlist, podItems, efVars>>

\* ------------------------------------------------------ checkRolloutStatus
\* checkRolloutStatus, lines 145-165: Complete and Validate panic on error,
\* Run blocks until every deployment of ns with the provider label has rolled
\* out, or fails
RolloutStatusOutcomes(ns) ==
    {"panic", "error"} \cup (IF \A d \in Watched(ns) : Converged(d) THEN {"ok"} ELSE {})

\* faulty variant: the error of the rollout-status wait is dropped
AfterRolloutStatus_IgnoreError(at, outcome) ==
    IF outcome = "panic" THEN Ctl("crashed", "", i, j)
    ELSE IF at = "waitOlm" THEN OlmLoop(olmDeploymentList, nonOlmDeploymentlist, i + 1)
    ELSE NonOlmLoop(nonOlmDeploymentlist, i, j + 1)

\* lines 114-118 (after the pod deletions) and 91-94 (after a restart)
AfterRolloutStatus(at, outcome) ==
    IF outcome = "panic" THEN Ctl("crashed", "", i, j)
    ELSE IF outcome = "error" THEN Ctl("aborted", "rollout status", i, j)
    ELSE IF at = "waitOlm" THEN OlmLoop(olmDeploymentList, nonOlmDeploymentlist, i + 1)
    ELSE NonOlmLoop(nonOlmDeploymentlist, i, j + 1)

checkRolloutStatus ==
    /\ pc \in {"waitOlm", "waitNonOlm"}
    /\ LET deployment == IF pc = "waitOlm" THEN olmDeploymentList.Items[i]
                         ELSE nonOlmDeploymentlist.Items[j]
       IN  \E outcome \in RolloutStatusOutcomes(RestartNamespace(operatorType)) :
             LET out == AfterRolloutStatus(pc, outcome)
             IN  /\ pc' = out.pc
                 /\ err' = out.err
                 /\ i' = out.i
                 /\ j' = out.j
                 /\ trace' = Append(trace, Event("wait", deployment, NoPod, outcome = "ok"))
    /\ UNCHANGED <<operatorType, cluster, olmDeploymentList, nonOlmDeploymentlist, podItems, k,
                   efVars>>

\* ------------------------------------------------ restartNonOlmDeployments
\* restartNonOlmDeployments, lines 122-143: Complete and Validate panic on
\* error, RunRestart patches deployment/<name> of ns; lines 88-94: its error
\* is returned, otherwise the rollout-status wait follows
AfterRestart(outcome) ==
    IF outcome = "panic" THEN Ctl("crashed", "", i, j)
    ELSE IF outcome = "error" THEN Ctl("aborted", "rollout restart", i, j)
    ELSE Ctl("waitNonOlm", "", i, j)

restartNonOlmDeployments ==
    /\ pc = "restartNonOlm"
    /\ LET deployment == nonOlmDeploymentlist.Items[j]
       IN  \E outcome \in {"panic", "error", "ok"} :
             LET out == AfterRestart(outcome)
             IN  /\ pc' = out.pc
                 /\ err' = out.err
                 /\ i' = out.i
                 /\ j' = out.j
                 /\ trace' = Append(trace, Event("trigger", deployment, NoPod, outcome = "ok"))
                 /\ rolling' = IF outcome = "ok" THEN rolling \cup {deployment} ELSE rolling
    /\ UNCHANGED <<operatorType, deployments, pods, missing,
                   olmDeploymentList, nonOlmDeploymentlist, podItems, k, efVars>>

\* ------------------------------------------------------------- the cluster
\* the pod a controller creates in place of a deleted one: a new name
Replacement(p) == [name |-> p.name + MaxPods, ns |-> p.ns, app |-> p.app]

\* the controllers of the cluster (OLM, the deployment controller) bring a
\* deployment back: its deleted pods are replaced, its rollout completes
Reconcile(d) ==
    /\ ~Converged(d)
    /\ LET gone == {p \in missing : d \in Owners(p)}
       IN  /\ pods' = pods \cup {Replacement(p) : p \in gone}
           /\ missing' = missing \ gone
           /\ rolling' = rolling \ {d}
    /\ UNCHANGED <<pc, err, operatorType, deployments, locals, trace, efVars>>

Next ==
    \/ restart
    \/ AskForConfirmation
    \/ getExistingDeployments
    \/ deletePodsList
    \/ deletePodsDelete
    \/ checkRolloutStatus
    \/ restartNonOlmDeployments
    \/ \E d \in DeploymentNames : Reconcile(d)

Spec == Init /\ [][Next]_vars

\* ================================================================ properties
Terminated == pc \in {"done", "aborted", "crashed"}

Idx == 1..Len(trace)

\* the run asked for confirmation and got an affirmative / a negative answer
Confirmed == \E a \in Idx : trace[a].op = "confirm" /\ trace[a].ok
Declined == \E a \in Idx : trace[a].op = "confirm" /\ ~trace[a].ok

\* getExistingDeployments returned its two lists
Discovered == \E a \in Idx : trace[a].op = "listDeployments" /\ trace[a].ok

\* the calls of the run on the cluster that change it, attempted or done
IsMutation(e) == e.op \in {"delete", "trigger"}
\* the calls of the run that read the cluster's deployments or pods
IsListing(e) == e.op \in {"listDeployments", "listPods"}

\* a failed call of kind op is the last thing the run did, and the run
\* returned the error e
FailsLast(op, e) ==
    \A a \in Idx : (trace[a].op = op /\ ~trace[a].ok) =>
        /\ a = Len(trace)
        /\ pc = "aborted"
        /\ err = e

\* number of rollout-status waits strictly between positions a and b of trace
WaitsBetween(a, b) == Cardinality({c \in Idx : a < c /\ c < b /\ trace[c].op = "wait"})

\* position of name d in a list of names (0 when absent)
Pos(items, d) == IF \E x \in 1..Len(items) : items[x] = d
                 THEN CHOOSE x \in 1..Len(items) : items[x] = d
                 ELSE 0

\* the events of trace of kind op, in order
RECURSIVE Select(_, _)
Select(t, op) == IF t = << >> THEN << >>
                 ELSE (IF Head(t).op = op THEN <<Head(t)>> ELSE << >>) \o Select(Tail(t), op)

\* ------------------------------------------------------------------- C1
\* C1: after any confirmation answer other than the affirmative one, restart
\* has returned nil and the confirmation was its last call: no deployment or
\* pod listing, no pod deletion and no restart trigger follows it, and the
\* cluster's pods and rollouts are untouched.
C1_DeclineIsNoOp ==
    \A a \in Idx : (trace[a].op = "confirm" /\ ~trace[a].ok) =>
        /\ a = Len(trace)
        /\ pc = "done"
        /\ err = "nil"
        /\ missing = {}
        /\ rolling = {}
        /\ \A p \in pods : p.name \in PodNames

\* a declined run of a namespace that has both classes of deployments and pods to delete
C1_Witness ==
    /\ Declined
    /\ pc = "done"
    /\ ListOlmDeployments(OperatorNamespace) # << >>
    /\ ListNonOlmDeployments(OperatorNamespace) # << >>
    /\ \E p \in pods : p.app \in {ListOlmDeployments(OperatorNamespace)[x] :
                                     x \in 1..Len(ListOlmDeployments(OperatorNamespace))}

\* ------------------------------------------------------------------- C2
\* C2 (as claimed): once discovery has returned and one of the two lists is
\* empty, the run performs no pod deletion and no restart trigger, and when
\* it ends it has returned a not-found error.
C2_EmptyClassIsNotFound ==
    (Discovered /\ (olmDeploymentList.Items = << >> \/ nonOlmDeploymentlist.Items = << >>)) =>
        /\ \A a \in Idx : ~IsMutation(trace[a])
        /\ Terminated => err \in {"OLM not found", "non-OLM not found"}

\* ------------------------------------------------------------------- C3
\* C3: a failed deletion of the k-th pod of an OLM deployment is the last
\* call of the run, which has returned that error: pods k+1..n of the listing
\* are still in the cluster, no rollout-status wait follows, no later OLM
\* deployment has its pods listed or deleted and no restart is triggered.
C3_DeleteFailureAborts ==
    /\ FailsLast("delete", "Delete pod")
    /\ \A a \in Idx : (trace[a].op = "delete" /\ ~trace[a].ok) =>
          /\ trace[a].p = podItems[k]
          /\ \A m \in (k + 1)..Len(podItems) : podItems[m] \in pods
          /\ rolling = {}

\* the first of two listed pods failed to delete, with a later OLM deployment
\* and a non-OLM deployment still to come
C3_Witness ==
    /\ pc = "aborted"
    /\ err = "Delete pod"
    /\ k < Len(podItems)
    /\ i < Len(olmDeploymentList.Items)
    /\ nonOlmDeploymentlist.Items # << >>

\* ------------------------------------------------------------------- C4
\* C4 (as claimed): after discovery no deployment is in both the list of
\* OLM deployments and the list of non-OLM deployments.
C4_ClassesDisjoint ==
    Discovered =>
        \A x \in 1..Len(olmDeploymentList.Items), y \in 1..Len(nonOlmDeploymentlist.Items) :
            olmDeploymentList.Items[x] # nonOlmDeploymentlist.Items[y]

\* ------------------------------------------------------------------- C5
\* C5 (as claimed): when the last call of the run is a rollout-status wait
\* for deployment D that returned success, D has all its replicas updated and
\* available (no deleted pod of D is unreplaced, no rollout of D is pending).
C5_WaitMeansConverged ==
    (trace # << >> /\ trace[Len(trace)].op = "wait" /\ trace[Len(trace)].ok) =>
        Converged(trace[Len(trace)].d)

\* ------------------------------------------------------------------- C6
\* C6: the calls of a run are ordered confirm, discover, recycle, restart:
\* every listing, deletion, restart trigger and wait comes after an
\* affirmative confirmation, and every pod listing, deletion, trigger and wait
\* after the deployment listing; every pod deletion precedes every restart
\* trigger; between two pod deletions there are as many rollout-status waits
\* as list positions between their deployments (none inside one deployment,
\* exactly one from a deployment to the next); between two restart triggers
\* likewise, and never none; so deployments are taken in list order.
C6_StepOrder ==
    LET waitsUpTo == [a \in 0..Len(trace) |->
                         Cardinality({c \in 1..a : trace[c].op = "wait"})]
        between == [a \in Idx |-> [b \in Idx |-> waitsUpTo[b - 1] - waitsUpTo[a]]]
        olmPos == [a \in Idx |-> Pos(olmDeploymentList.Items, trace[a].d)]
        nonOlmPos == [a \in Idx |-> Pos(nonOlmDeploymentlist.Items, trace[a].d)]
        deletes == {a \in Idx : trace[a].op = "delete"}
        triggers == {a \in Idx : trace[a].op = "trigger"}
    IN  /\ \A b \in Idx : (IsListing(trace[b]) \/ IsMutation(trace[b]) \/ trace[b].op = "wait") =>
              \E a \in 1..(b - 1) : trace[a].op = "confirm" /\ trace[a].ok
        /\ \A b \in Idx : (trace[b].op = "listPods" \/ IsMutation(trace[b]) \/ trace[b].op = "wait") =>
              \E a \in 1..(b - 1) : trace[a].op = "listDeployments" /\ trace[a].ok
        /\ \A a \in deletes, b \in triggers : a < b
        /\ \A a \in deletes : olmPos[a] > 0
        /\ \A a, b \in deletes : a < b => between[a][b] = olmPos[b] - olmPos[a]
        /\ \A a \in triggers : nonOlmPos[a] > 0
        /\ \A a, b \in triggers : a < b =>
              /\ between[a][b] >= 1
              /\ between[a][b] = nonOlmPos[b] - nonOlmPos[a]

\* a completed run that deleted pods of two OLM deployments and restarted two
\* non-OLM deployments
C6_Witness ==
    /\ pc = "done"
    /\ \E a, b \in Idx : trace[a].op = "delete" /\ trace[b].op = "delete"
                           /\ trace[a].d # trace[b].d
    /\ \E a, b \in Idx : trace[a].op = "trigger" /\ trace[b].op = "trigger"
                           /\ trace[a].d # trace[b].d

\* ------------------------------------------------------------------- C7
\* C7: a run that was confirmed, found n >= 1 OLM and m >= 1 non-OLM
\* deployments and saw no call fail has ended with a nil error, and then:
\* every pod the cluster had at start under the selector of a listed OLM
\* deployment was deleted, nothing else was, and no pod twice; exactly n + m
\* rollout-status waits were made; the restart triggers are exactly the
\* non-OLM deployments, one each.
C7_SuccessfulRun ==
    (/\ Terminated
     /\ Confirmed
     /\ Discovered
     /\ Len(olmDeploymentList.Items) >= 1
     /\ Len(nonOlmDeploymentlist.Items) >= 1
     /\ \A a \in Idx : trace[a].ok) =>
        LET deletes == Select(trace, "delete")
            triggers == Select(trace, "trigger")
            waits == Select(trace, "wait")
            olm == {olmDeploymentList.Items[x] : x \in 1..Len(olmDeploymentList.Items)}
        IN  /\ pc = "done"
            /\ err = "nil"
            /\ \A x, y \in 1..Len(deletes) : deletes[x].p = deletes[y].p => x = y
            /\ \A x \in 1..Len(deletes) : /\ deletes[x].p.app = deletes[x].d
                                          /\ deletes[x].d \in olm
                                          /\ deletes[x].p.name \in PodNames
            /\ \A p \in pods : (p.name \in PodNames) => p.app \notin olm
            /\ Len(waits) = Len(olmDeploymentList.Items) + Len(nonOlmDeploymentlist.Items)
            /\ [x \in 1..Len(triggers) |-> triggers[x].d] = nonOlmDeploymentlist.Items

\* a fully successful run with n = 1 == m over distinct deployments that
\* deleted every pod the cluster started with
C7_Witness ==
    /\ pc = "done"
    /\ Confirmed
    /\ Len(olmDeploymentList.Items) = 1
    /\ Len(nonOlmDeploymentlist.Items) = 1
    /\ olmDeploymentList.Items # nonOlmDeploymentlist.Items
    /\ Len(Select(trace, "delete")) = MaxPods
    /\ Len(Select(trace, "wait")) = 2

\* ------------------------------------------------------------------- C8
\* C8 (as claimed): whenever a call of the run has failed, the run has ended
\* by returning an error to its caller.
C8_FailureReturnsError ==
    (\E a \in Idx : ~trace[a].ok /\ trace[a].op # "confirm") =>
        (pc = "aborted" /\ err \notin {"", "nil"})

\* ------------------------------------------------------------------- C9
\* C9 (as claimed): every pod the run deleted is a pod of the operator
\* namespace resolved for the run.
C9_DeletesOnlyInNamespace ==
    \A a \in Idx : (trace[a].op = "delete" /\ trace[a].ok) => trace[a].p.ns = OperatorNamespace

\* ------------------------------------------------------------------ C10
\* C10: a failed LoadClusterConfig or NewClient is the last call of the run,
\* which has returned that error: no confirmation was asked, nothing was
\* listed and the cluster is untouched.
C10_ConfigFailureAborts ==
    /\ FailsLast("LoadClusterConfig", "LoadClusterConfig")
    /\ FailsLast("NewClient", "NewClient")
    /\ (\E a \in Idx : trace[a].op \in {"LoadClusterConfig", "NewClient"} /\ ~trace[a].ok) =>
          /\ \A a \in Idx : trace[a].op \in {"LoadClusterConfig", "NewClient"}
          /\ missing = {} /\ rolling = {}
          /\ \A p \in pods : p.name \in PodNames

\* NewClient failed for a run that was given an operator type, over a
\* namespace with deployments of both classes
C10_Witness ==
    /\ pc = "aborted"
    /\ err = "NewClient"
    /\ Len(operatorType) = 1
    /\ ListOlmDeployments(OperatorNamespace) # << >>
    /\ ListNonOlmDeployments(OperatorNamespace) # << >>

C15_WaitFailureAborts ==
    \A a \in Idx : (trace[a].op = "wait" /\ ~trace[a].ok /\ pc # "crashed") =>
        /\ a = Len(trace)
        /\ pc = "aborted"
        /\ err = "rollout status"

\* the wait after the recycling of an OLM deployment failed while a later OLM
\* deployment still has a pod and a non-OLM deployment awaits its restart
C15_Witness ==
    /\ pc = "aborted"
    /\ err = "rollout status"
    /\ trace[Len(trace) - 1].op = "delete"
    /\ i < Len(olmDeploymentList.Items)
    /\ \E p \in pods : p.app = olmDeploymentList.Items[i + 1]
    /\ nonOlmDeploymentlist.Items # << >>

\* ------------------------------------------------------------------ C16
\* C16: whatever the cluster's controllers do in between, the pods of an OLM
\* deployment are listed once, before any of its deletions; the deletions of
\* the deployment being recycled are the first pods of that listing, one
\* after the other in the order of the listing; and no pod a controller
\* created in place of a deleted one is ever deleted by the run.
C16_DeletesTheSnapshot ==
    LET lists == {a \in Idx : trace[a].op = "listPods"}
        deletes == {a \in Idx : trace[a].op = "delete"}
        done == {a \in deletes : trace[a].ok}
    IN  /\ \A a, b \in lists : trace[a].d = trace[b].d => a = b
        /\ \A b \in deletes : \E a \in lists : a < b /\ trace[a].ok /\ trace[a].d = trace[b].d
        /\ \A b \in deletes : trace[b].p.name \in PodNames
        /\ pc \in {"deletePod", "waitOlm"} =>
              LET d == olmDeploymentList.Items[i]
                  mine == Select(trace, "delete")
                  own == {x \in 1..Len(mine) : mine[x].d = d}
              IN  /\ Cardinality(own) = k - 1
                  /\ k - 1 <= Len(podItems)
                  /\ \A x \in own : /\ x > Len(mine) - (k - 1)
                                    /\ mine[x].p = podItems[x - (Len(mine) - (k - 1))]
                                    /\ mine[x].ok

\* both pods of a deployment were deleted, and the controller replaced the
\* first one before the second one went: the replacement is live
C16_Witness ==
    /\ pc = "waitOlm"
    /\ Len(podItems) >= 2
    /\ k = Len(podItems) + 1
    /\ \E p \in pods : p.name \notin PodNames /\ p.app = olmDeploymentList.Items[i]
    /\ \E q \in missing : q.app = olmDeploymentList.Items[i]

\* ------------------------------------------------------------------ C17
Step(op, d, p) == [op |-> op, d |-> d, p |-> p]

\* the pod deletions, restart triggers and waits of the run so far, attempted
\* or done, in order
RECURSIVE Performed(_)
Performed(t) ==
    IF t = << >> THEN << >>
    ELSE (IF Head(t).op \in {"delete", "trigger", "wait"}
          THEN <<Step(Head(t).op, Head(t).d, Head(t).p)>> ELSE << >>) \o Performed(Tail(t))

\* the pods the cluster had when the run started
InitialPods ==
    {p \in pods : p.name \in PodNames}
        \cup {trace[a].p : a \in {b \in Idx : trace[b].op = "delete" /\ trace[b].ok}}

RECURSIVE DeletePlan(_, _)
DeletePlan(d, items) ==
    IF items = << >> THEN << >>
    ELSE <<Step("delete", d, Head(items))>> \o DeletePlan(d, Tail(items))

RECURSIVE RecyclePlan(_, _)
RecyclePlan(items, initial) ==
    IF items = << >> THEN << >>
    ELSE DeletePlan(Head(items), PodsToSeq({p \in initial : p.app = Head(items)}))
            \o <<Step("wait", Head(items), NoPod)>> \o RecyclePlan(Tail(items), initial)

RECURSIVE RestartPlan(_)
RestartPlan(items) ==
    IF items = << >> THEN << >>
    ELSE <<Step("trigger", Head(items), NoPod), Step("wait", Head(items), NoPod)>>
            \o RestartPlan(Tail(items))

\* what a run in which every call succeeds performs, for the lists discovery
\* returned and the pods each selector lists
FullPlan ==
    LET initial == InitialPods
    IN  RecyclePlan(olmDeploymentList.Items, initial) \o RestartPlan(nonOlmDeploymentlist.Items)

PlanPrefix ==
    LET done == Performed(trace)
        plan == FullPlan
    IN  /\ Len(done) <= Len(plan)
        /\ done = SubSeq(plan, 1, Len(done))
        /\ (pc = "done" /\ Confirmed /\ \A a \in Idx : trace[a].ok) => done = plan

\* every pod the run deleted is gone from the cluster
AppliedStays ==
    \A a \in Idx : (trace[a].op = "delete" /\ trace[a].ok) => trace[a].p \notin pods

\* C17: nothing is skipped and nothing is rolled back: at every moment of
\* the run, the deletions, triggers and waits it has made so far, failed ones
\* included, are a prefix of what the run with every call succeeding makes
\* over the same lists (and are all of it when the run succeeded); no call
\* of the run brings a pod back to the cluster, completes or withdraws a
\* rollout; and a pod the run deleted never is in the cluster again.
C17_NoRollbackNoSkip ==
    /\ [](PlanPrefix /\ AppliedStays)
    /\ [][trace' # trace => /\ pods' \subseteq pods
                            /\ missing \subseteq missing'
                            /\ rolling \subseteq rolling']_vars

\* the run was aborted after it had deleted a pod, with at least two steps
\* of the plan still to make
C17_Witness ==
    /\ pc = "aborted"
    /\ \E a \in Idx : trace[a].op = "delete" /\ trace[a].ok
    /\ Len(Performed(trace)) + 1 < Len(FullPlan)

\* ------------------------------------------------------------------ C19
\* operator types a run can be given, those of Init and others
GivenTypes == {<<"host">>, <<"member-1">>, <<"member-2">>, <<"anything">>}

FairSpec ==
    /\ Spec
    /\ WF_vars(restart)
    /\ WF_vars(AskForConfirmation)
    /\ WF_vars(getExistingDeployments)
    /\ WF_vars(deletePodsList)
    /\ WF_vars(deletePodsDelete)
    /\ WF_vars(checkRolloutStatus)
    /\ WF_vars(restartNonOlmDeployments)
    /\ WF_vars(\E d \in DeploymentNames : Reconcile(d))

\* at most one deletion per listed pod, one restart trigger per non-OLM
\* deployment and one wait per listed deployment
WithinBudget ==
    LET deletes == Select(trace, "delete")
        triggers == Select(trace, "trigger")
        waits == Select(trace, "wait")
    IN  /\ \A x, y \in 1..Len(deletes) : deletes[x].p = deletes[y].p => x = y
        /\ Len(triggers) <= Len(nonOlmDeploymentlist.Items)
        /\ \A x, y \in 1..Len(triggers) : triggers[x].d = triggers[y].d => x = y
        /\ Len(waits) <= Len(olmDeploymentList.Items) + Len(nonOlmDeploymentlist.Items)

\* the run never goes back to an earlier deployment or phase
NeverLoopsBack ==
    /\ i' >= i
    /\ j' >= j
    /\ (pc \in {"restartNonOlm", "waitNonOlm"}) => (pc' \notin {"listPods", "deletePod", "waitOlm"})
    /\ (pc \in {"done", "aborted", "crashed"}) => (pc' = pc)

\* C18 (as claimed): every run eventually ends in Done or Aborted, within
\* the budget of one deletion per listed pod, one trigger per non-OLM
\* deployment and one wait per listed deployment, and without ever going
\* back to an earlier deployment or phase.
C18_EndsDoneOrAborted ==
    /\ <>(pc \in {"done", "aborted"})
    /\ []WithinBudget
    /\ [][NeverLoopsBack]_vars

\* what does hold: the run always ends, the panic of C8 being the third way
C18_EndsSomehow ==
    /\ <>Terminated
    /\ []WithinBudget
    /\ [][NeverLoopsBack]_vars

\* ============================================================ EnableFeature
\* `ksctl enable-feature <space> <feature>`, as pkg/cmd/enable_feature_test.go
\* states it: the feature toggles of a Space are the comma-separated value
\* of one annotation of the Space; the supported ones are listed in the
\* ToolchainConfig of the host cluster.

MaxAnnotationLen == 3    \* an annotation value has at most that many tokens
MaxToggles == 2          \* ToolchainConfig lists at most that many feature toggles
MaxCalls == 2            \* EnableFeature is called at most that many times in a row

Features == {"feature-x", "feature1", "feature2"}
SpaceNames == {"testspace", "another"}

\* a string is a sequence of tokens: feature names and the separator
Comma == ","
Strings == UNION {[1..n -> Features \cup {Comma}] : n \in 0..MaxAnnotationLen}

NoSpace == [exists |-> FALSE, annotated |-> FALSE, toggles |-> << >>]

\* space.Annotations[FeatureToggleNameAnnotationKey]: "" when there is none
Annotation(space) == IF space.annotated THEN space.toggles ELSE << >>

\* strings.Split(s, ","): the entries of s between the separators
RECURSIVE Split(_)
Split(str) ==
    IF str = << >> THEN << << >> >>
    ELSE IF Head(str) = Comma THEN << << >> >> \o Split(Tail(str))
    ELSE LET rest == Split(Tail(str))
         IN  << <<Head(str)>> \o Head(rest) >> \o Tail(rest)

\* strings.Join(list, ",")
RECURSIVE Join(_)
Join(list) ==
    IF list = << >> THEN << >>
    ELSE IF Len(list) = 1 THEN list[1]
    ELSE list[1] \o <<Comma>> \o Join(Tail(list))

\* the feature toggles a Space has enabled: none for an empty value
EnabledFeatures(space) ==
    IF Annotation(space) = << >> THEN << >> ELSE Split(Annotation(space))

\* faulty variant: only the first entry is looked at
IsEnabled_FirstOnly(enabled, feature) ==
    enabled # << >> /\ enabled[1] = <<feature>>

\* the feature is one of the enabled ones
IsEnabled(enabled, feature) ==
    \E x \in 1..Len(enabled) : enabled[x] = <<feature>>

\* faulty variant: the new feature is put first
AddFeature_Prepend(enabled, feature) == << <<feature>> >> \o enabled

\* the new feature is appended to the enabled ones
AddFeature(enabled, feature) == Append(enabled, <<feature>>)

\* faulty variant: any feature passes when the list of supported ones is not empty
SupportedError_Lenient(cfg, feature) ==
    IF ~cfg.exists THEN "unable to get ToolchainConfig"
    ELSE IF Len(cfg.FeatureToggles) = 0 THEN "not supported - the list is empty"
    ELSE ""

\* the error the check against the ToolchainConfig gives ("" = supported)
SupportedError(cfg, feature) ==
    IF ~cfg.exists THEN "unable to get ToolchainConfig"
    ELSE IF Len(cfg.FeatureToggles) = 0 THEN "not supported - the list is empty"
    ELSE IF \A x \in 1..Len(cfg.FeatureToggles) : cfg.FeatureToggles[x] # feature
         THEN "not supported"
    ELSE ""

EfOut(p, e, o) == [pc |-> p, err |-> e, output |-> o]

\* EnableFeature up to its confirmation.  The tests leave open which of the
\* two checks comes first when a feature is enabled and not supported:
\* `order` is either.
CheckOutcome(order, space, cfg, feature) ==
    IF ~space.exists THEN EfOut("done", "space not found", {})
    ELSE LET present == IsEnabled(EnabledFeatures(space), feature)
             cfgErr == SupportedError(cfg, feature)
         IN  IF present /\ (order = "enabled first" \/ cfgErr = "")
             THEN EfOut("done", "nil", {"already enabled"})
             ELSE IF cfgErr = "not supported"
             THEN EfOut("done", cfgErr, {"not supported", "supported toggles"})
             ELSE IF cfgErr # "" THEN EfOut("done", cfgErr, {})
             ELSE EfOut("confirm", "", {"prompt"})

\* the Space with the feature enabled
Enable(space, feature) ==
    [exists |-> TRUE, annotated |-> TRUE,
     toggles |-> Join(AddFeature(EnabledFeatures(space), feature))]

\* all lists of distinct supported feature toggles
ToggleLists ==
    {l \in UNION {[1..n -> Features] : n \in 0..MaxToggles} :
        \A x, y \in 1..Len(l) : l[x] = l[y] => x = y}

restartIdle ==
    /\ pc = "idle"
    /\ err = ""
    /\ operatorType = << >>
    /\ deployments = [d \in DeploymentNames |->
                         [ns |-> OperatorNamespace, olm |-> FALSE, provider |-> FALSE]]
    /\ pods = {}
    /\ missing = {}
    /\ rolling = {}
    /\ olmDeploymentList = NilList
    /\ nonOlmDeploymentlist = NilList
    /\ i = 0
    /\ j = 0
    /\ podItems = << >>
    /\ k = 0
    /\ trace = << >>

InitEnableFeature ==
    /\ restartIdle
    /\ efPc = "start"
    /\ efErr = ""
    /\ spaceName \in SpaceNames
    /\ featureToggleName \in {"feature-x", "feature1"}
    /\ \E ts \in {NoSpace} \cup [exists : {TRUE}, annotated : {FALSE}, toggles : {<< >>}]
                           \cup [exists : {TRUE}, annotated : {TRUE}, toggles : Strings],
          an \in {NoSpace, [exists |-> TRUE, annotated |-> FALSE, toggles |-> << >>],
                  [exists |-> TRUE, annotated |-> TRUE, toggles |-> <<"feature1">>]} :
          spaces = [n \in SpaceNames |-> IF n = "testspace" THEN ts ELSE an]
    /\ spaces0 = spaces
    /\ config \in [exists : {TRUE}, FeatureToggles : ToggleLists]
                    \cup {[exists |-> FALSE, FeatureToggles |-> << >>]}
    /\ answer = ""
    /\ output = {}
    /\ calls = 1

\* EnableFeature: get the Space and the ToolchainConfig, check the feature
EnableFeature ==
    /\ efPc = "start"
    /\ \E order \in {"supported first", "enabled first"} :
          LET out == CheckOutcome(order, spaces[spaceName], config, featureToggleName)
          IN  /\ efPc' = out.pc
              /\ efErr' = out.err
              /\ output' = output \cup out.output
    /\ UNCHANGED <<spaceName, featureToggleName, spaces, spaces0, config, answer, calls,
                   restartVars>>

\* EnableFeature: the confirmation, and the update of the Space after a yes
EnableFeatureConfirm ==
    /\ efPc = "confirm"
    /\ \E a \in {"Y", "n"} :
          /\ answer' = a
          /\ spaces' = IF a = "Y"
                       THEN [spaces EXCEPT ![spaceName] = Enable(spaces[spaceName], featureToggleName)]
                       ELSE spaces
          /\ output' = IF a = "Y" THEN output \cup {"success"} ELSE output
    /\ efPc' = "done"
    /\ efErr' = "nil"
    /\ UNCHANGED <<spaceName, featureToggleName, spaces0, config, calls, restartVars>>

\* the same command is given once more
EnableFeatureAgain ==
    /\ efPc = "done"
    /\ calls < MaxCalls
    /\ calls' = calls + 1
    /\ efPc' = "start"
    /\ efErr' = ""
    /\ answer' = ""
    /\ output' = {}
    /\ spaces0' = spaces
    /\ UNCHANGED <<spaceName, featureToggleName, spaces, config, restartVars>>

NextEnableFeature == EnableFeature \/ EnableFeatureConfirm \/ EnableFeatureAgain

SpecEnableFeature == InitEnableFeature /\ [][NextEnableFeature]_vars

\* ---------------------------------------------------------- C12, C13, C14

\* the Space the current call is about, as the call found it
Space0 == spaces0[spaceName]

\* the feature stands as an entry of the value: between separators or ends
Listed(str, feature) ==
    \E x \in 1..Len(str) :
        /\ str[x] = feature
        /\ x = 1 \/ str[x - 1] = Comma
        /\ x = Len(str) \/ str[x + 1] = Comma

Supported(feature) ==
    config.exists /\ \E x \in 1..Len(config.FeatureToggles) : config.FeatureToggles[x] = feature

IsError(e) == e \notin {"", "nil"}

\* C12: for an existing Space and a supported feature that the Space has
\* not enabled yet, EnableFeature asks for confirmation and returns no
\* error; after a yes the annotation is the old value followed by the
\* separator and the feature (the feature alone when there was no value),
\* after a no every Space is as it was.
C12_EnableAppends ==
    (/\ efPc = "done"
     /\ Space0.exists
     /\ Supported(featureToggleName)
     /\ ~Listed(Annotation(Space0), featureToggleName))
    => /\ answer \in {"Y", "n"}
       /\ "prompt" \in output
       /\ efErr = "nil"
       /\ \A n \in SpaceNames \ {spaceName} : spaces[n] = spaces0[n]
       /\ answer = "Y" =>
             /\ spaces[spaceName] =
                   [exists |-> TRUE, annotated |-> TRUE,
                    toggles |-> IF Annotation(Space0) = << >>
                                THEN <<featureToggleName>>
                                ELSE Annotation(Space0) \o <<Comma, featureToggleName>>]
             /\ "success" \in output
       /\ answer = "n" => spaces = spaces0 /\ "success" \notin output

C12_Witness ==
    /\ efPc = "done"
    /\ answer = "Y"
    /\ Supported(featureToggleName)
    /\ Annotation(Space0) = <<"feature1", Comma, "feature2">>
    /\ spaces[spaceName].toggles = <<"feature1", Comma, "feature2", Comma, "feature-x">>

C14_ErrorChangesNothing ==
    /\ (efPc = "done" /\ IsError(efErr)) =>
          /\ spaces = spaces0
          /\ "success" \notin output
          /\ "prompt" \notin output
          /\ answer = ""
    /\ (/\ efPc = "done"
        /\ \/ ~Space0.exists
           \/ /\ ~Supported(featureToggleName)
              /\ ~Listed(Annotation(Space0), featureToggleName))
       => IsError(efErr)

C14_Witness ==
    /\ efPc = "done"
    /\ efErr = "not supported"
    /\ config.exists
    /\ Len(config.FeatureToggles) > 0
    /\ \E n \in SpaceNames : spaces[n].annotated
    /\ spaces = spaces0
====
